---- MODULE Spec2Model ----
(***************************************************************************)
(* A model of the ray tracer ray-trace-rs: the intersection routines of    *)
(* world.rs, the materials of material.rs, the transport integrator and    *)
(* the sequential and parallel renderers of camera.rs, and the encoder of  *)
(* util.rs.                                                                *)
(*                                                                         *)
(* f64 values are modelled as exact fractions [n, d] in lowest terms with  *)
(* d >= 0; d = 0 stands for the non-finite values (n = 1: +inf, n = -1:    *)
(* -inf, n = 0: NaN).  sqrt is rounded down to a binary grid, as f64 sqrt  *)
(* is rounded to its own grid.                                             *)
(***************************************************************************)
EXTENDS Integers, Sequences, FiniteSets, TLC

(***************************************************************************)
(* Bounds of the model.                                                    *)
(***************************************************************************)
\* sqrt is rounded down to multiples of 2^-SqrtBits
SqrtBits == 4
\* longest primitive list of a scene
MaxPrims == 2
\* largest depth ray_color is started with (max_depth)
MaxDepth == 2
\* largest image_width of a render
MaxW == 2
\* largest image_height of a render
MaxH == 3
\* largest y_blocks of a parallel render
MaxY == 2
\* rejected draws of random_on_sphere that are counted
MaxTries == 3

(***************************************************************************)
(* f64 arithmetic on fractions.                                            *)
(***************************************************************************)
Abs(i) == IF i < 0 THEN -i ELSE i

Sign(i) == IF i < 0 THEN -1 ELSE IF i > 0 THEN 1 ELSE 0

RECURSIVE Gcd(_, _)
Gcd(a, b) == IF b = 0 THEN a ELSE Gcd(b, a % b)

RECURSIVE Pow2(_)
Pow2(k) == IF k = 0 THEN 1 ELSE 2 * Pow2(k - 1)

\* the fraction n/d in lowest terms, the sign carried by the numerator
R(n, d) ==
    IF d = 0 THEN [n |-> Sign(n), d |-> 0]
    ELSE LET g == Gcd(Abs(n), Abs(d))
         IN  [n |-> Sign(d) * (n \div g), d |-> Abs(d) \div g]

I(k) == [n |-> k, d |-> 1]

INFINITY == [n |-> 1, d |-> 0]

NEG_INFINITY == [n |-> -1, d |-> 0]

IsFinite(x) == x.d > 0

IsNaN(x) == x.d = 0 /\ x.n = 0

RNeg(x) == [n |-> -x.n, d |-> x.d]

RAdd(x, y) ==
    IF x.d = 0 /\ y.d = 0
    THEN (IF x.n = y.n THEN x ELSE R(0, 0))
    ELSE R(x.n * y.d + y.n * x.d, x.d * y.d)

RSub(x, y) == RAdd(x, RNeg(y))

RMul(x, y) == R(x.n * y.n, x.d * y.d)

RDiv(x, y) == R(x.n * y.d * (IF y.n < 0 THEN -1 ELSE 1), x.d * Abs(y.n))

\* a/b < c/d for b, d > 0, by continued fractions: no product is formed
RECURSIVE FracLt(_, _, _, _)
FracLt(a, b, c, d) ==
    IF a \div b # c \div d THEN a \div b < c \div d
    ELSE IF c % d = 0 THEN FALSE
    ELSE IF a % b = 0 THEN TRUE
    ELSE FracLt(d, c % d, b, a % b)

\* x < y; false when either side is NaN
RLt(x, y) ==
    IF IsNaN(x) \/ IsNaN(y) THEN FALSE
    ELSE IF x.d = 0 \/ y.d = 0
         THEN (IF x.d = 0 /\ y.d = 0 THEN x.n < y.n ELSE x.d = 0 <=> x.n < 0)
    ELSE FracLt(x.n, x.d, y.n, y.d)

REq(x, y) == ~IsNaN(x) /\ ~IsNaN(y) /\ x = y

RLe(x, y) == RLt(x, y) \/ REq(x, y)

RGt(x, y) == RLt(y, x)

RAbs(x) == [n |-> Abs(x.n), d |-> x.d]

\* f64::max: the other operand when one is NaN
RMax(x, y) == IF IsNaN(x) THEN y ELSE IF IsNaN(y) THEN x ELSE IF RLt(x, y) THEN y ELSE x

RECURSIVE IsqrtIter(_, _)
IsqrtIter(v, x) ==
    LET y == (x + (v \div x)) \div 2
    IN  IF y >= x THEN x ELSE IsqrtIter(v, y)

\* the integer square root, rounded down
Isqrt(v) == IF v <= 0 THEN 0 ELSE IsqrtIter(v, v)

\* f64::sqrt: NaN below zero, rounded down to the grid otherwise
RSqrt(x) ==
    IF IsNaN(x) \/ x.n < 0 THEN R(0, 0)
    ELSE IF x.d = 0 THEN x
    ELSE LET s == Pow2(SqrtBits)
         IN  R(Isqrt((x.n * s * s) \div x.d), s)

\* f64::trunc followed by `as i64`, for finite values
Trunc(x) == Sign(x.n) * (Abs(x.n) \div x.d)

(***************************************************************************)
(* vec3.rs                                                                 *)
(***************************************************************************)
Vec3(x, y, z) == <<x, y, z>>

V(x, y, z) == <<I(x), I(y), I(z)>>

EMPTY == V(0, 0, 0)

VAdd(a, b) == <<RAdd(a[1], b[1]), RAdd(a[2], b[2]), RAdd(a[3], b[3])>>

VSub(a, b) == <<RSub(a[1], b[1]), RSub(a[2], b[2]), RSub(a[3], b[3])>>

VMul(a, b) == <<RMul(a[1], b[1]), RMul(a[2], b[2]), RMul(a[3], b[3])>>

VScale(a, k) == <<RMul(a[1], k), RMul(a[2], k), RMul(a[3], k)>>

VDiv(a, k) == <<RDiv(a[1], k), RDiv(a[2], k), RDiv(a[3], k)>>

VNeg(a) == <<RNeg(a[1]), RNeg(a[2]), RNeg(a[3])>>

sum(a) == RAdd(RAdd(a[1], a[2]), a[3])

length_squared(a) == RAdd(RAdd(RMul(a[1], a[1]), RMul(a[2], a[2])), RMul(a[3], a[3]))

length(a) == RSqrt(length_squared(a))

unit(a) == VDiv(a, length(a))

near_zero(a) ==
    LET eps == R(1, 100000000)
    IN  RLt(RAbs(a[1]), eps) /\ RLt(RAbs(a[2]), eps) /\ RLt(RAbs(a[3]), eps)

dot(a, b) == sum(VMul(a, b))

cross(a, b) ==
    Vec3(RSub(RMul(a[2], b[3]), RMul(a[3], b[2])),
         RSub(RMul(a[3], b[1]), RMul(a[1], b[3])),
         RSub(RMul(a[1], b[2]), RMul(a[2], b[1])))

det(c1, c2, c3) == dot(c1, cross(c2, c3))

reflect(v, n) == VSub(v, VScale(VScale(n, dot(v, n)), I(2)))

(***************************************************************************)
(* interval.rs                                                             *)
(***************************************************************************)
Interval(min, max) == [min |-> min, max |-> max]

contains(iv, x) == RLe(iv.min, x) /\ RLe(x, iv.max)

surrounds(iv, x) == RLt(iv.min, x) /\ RLt(x, iv.max)

FORWARD == Interval(I(0), INFINITY)

ALMOST_FORWARD == Interval(R(1, 1000), INFINITY)

(***************************************************************************)
(* world.rs                                                                *)
(***************************************************************************)
Ray(origin, dir) == [origin |-> origin, dir |-> dir]

at(ray, t) == VAdd(ray.origin, VScale(ray.dir, t))

Lambertian(albedo) == [kind |-> "lambertian", albedo |-> albedo, fuzz |-> I(0)]

Metal(albedo, fuzz) == [kind |-> "metal", albedo |-> albedo, fuzz |-> fuzz]

HitRecordNew ==
    [t |-> I(0), point |-> V(0, 0, 0), normal |-> V(0, 0, 0), front_face |-> FALSE,
     material |-> Lambertian(EMPTY)]

\* a local of the code, evaluated once: F applied to the value of e
Let(e, F(_)) == F(e)

\* set_face_normal that keeps the outward normal on a back face
set_face_normal_unflipped(rec, ray, outward_normal) ==
    [rec EXCEPT !.front_face = RLt(dot(ray.dir, outward_normal), I(0)),
                !.normal = outward_normal]

set_face_normal(rec, ray, outward_normal) ==
    Let(RLt(dot(ray.dir, outward_normal), I(0)), LAMBDA front_face :
        [rec EXCEPT !.front_face = front_face,
                    !.normal = IF front_face THEN outward_normal
                               ELSE VNeg(outward_normal)])

Hit(rec) == [hit |-> TRUE, rec |-> rec]

Miss == [hit |-> FALSE, rec |-> HitRecordNew]

Sphere(center, radius, material) ==
    [kind |-> "sphere", center |-> center, radius |-> radius, material |-> material]

Triangle(a, b, c, material) ==
    [kind |-> "triangle", a |-> a, b |-> b, c |-> c, material |-> material]

Polygon(triangles) == [kind |-> "polygon", triangles |-> triangles]

\* the quadratic of Sphere::hit: its discriminant and its two roots
SphereQuadratic(s, ray) ==
    Let(VSub(s.center, ray.origin), LAMBDA oc :
    Let(length_squared(ray.dir), LAMBDA a :
    Let(dot(ray.dir, oc), LAMBDA h :
    Let(RSub(length_squared(oc), RMul(s.radius, s.radius)), LAMBDA c :
    Let(RSub(RMul(h, h), RMul(a, c)), LAMBDA discriminant :
    Let(RSqrt(discriminant), LAMBDA sqrtd :
        [discriminant |-> discriminant,
         root1 |-> RDiv(RSub(h, sqrtd), a),
         root2 |-> RDiv(RAdd(h, sqrtd), a)]))))))

\* the record Sphere::hit builds for the accepted root
SphereRecord(s, ray, root) ==
    Let(at(ray, root), LAMBDA point :
    Let(VDiv(VSub(point, s.center), s.radius), LAMBDA outward_normal :
    Let(set_face_normal([HitRecordNew EXCEPT !.t = root, !.point = point],
                        ray, outward_normal), LAMBDA rec :
        [rec EXCEPT !.material = s.material])))

\* Sphere::hit with the closed test `contains` in place of `surrounds`
SphereHitClosed(s, ray, interval) ==
    Let(SphereQuadratic(s, ray), LAMBDA q :
        IF RLt(q.discriminant, I(0)) THEN Miss
        ELSE IF contains(interval, q.root1) THEN Hit(SphereRecord(s, ray, q.root1))
        ELSE IF contains(interval, q.root2) THEN Hit(SphereRecord(s, ray, q.root2))
        ELSE Miss)

SphereHit(s, ray, interval) ==
    Let(SphereQuadratic(s, ray), LAMBDA q :
        IF RLt(q.discriminant, I(0)) THEN Miss
        ELSE IF surrounds(interval, q.root1) THEN Hit(SphereRecord(s, ray, q.root1))
        ELSE IF surrounds(interval, q.root2) THEN Hit(SphereRecord(s, ray, q.root2))
        ELSE Miss)

\* the record Triangle::hit builds for the accepted t
TriangleRecord(tr, ray, t, normal) ==
    Let(set_face_normal([HitRecordNew EXCEPT !.t = t, !.point = at(ray, t)],
                        ray, normal), LAMBDA rec :
        [rec EXCEPT !.material = tr.material])

TriangleHit(tr, ray, interval) ==
    Let(VSub(tr.b, tr.a), LAMBDA ab :
    Let(VSub(tr.c, tr.a), LAMBDA ac :
    Let(unit(cross(ab, ac)), LAMBDA normal :
        IF REq(dot(ray.dir, normal), I(0)) THEN Miss
        ELSE
    Let(VSub(ray.origin, tr.a), LAMBDA b :
    Let(det(VNeg(ray.dir), ab, ac), LAMBDA det_a :
    Let(RDiv(det(b, ab, ac), det_a), LAMBDA t :
    Let(RDiv(det(VNeg(ray.dir), b, ac), det_a), LAMBDA u :
    Let(RDiv(det(VNeg(ray.dir), ab, b), det_a), LAMBDA v :
        IF RLt(u, I(0)) \/ RLt(v, I(0)) \/ RGt(RAdd(u, v), I(1))
           \/ ~contains(interval, t)
        THEN Miss
        ELSE Hit(TriangleRecord(tr, ray, t, normal))))))))))

\* the scan of Polygon::hit from triangle i on
RECURSIVE PolygonScan(_, _, _, _, _, _, _)
PolygonScan(triangles, ray, interval, i, rec, hit_anything, closest_so_far) ==
    IF i > Len(triangles)
    THEN (IF hit_anything THEN Hit(rec) ELSE Miss)
    ELSE Let(TriangleHit(triangles[i], ray, Interval(interval.min, closest_so_far)),
             LAMBDA hit :
                 IF hit.hit
                 THEN PolygonScan(triangles, ray, interval, i + 1, hit.rec, TRUE, hit.rec.t)
                 ELSE PolygonScan(triangles, ray, interval, i + 1, rec, hit_anything,
                                  closest_so_far))

PolygonHit(p, ray, interval) ==
    PolygonScan(p.triangles, ray, interval, 1, HitRecordNew, FALSE, interval.max)

\* dyn Hittable dispatch
PrimitiveHit(s, ray, interval) ==
    CASE s.kind = "sphere" -> SphereHit(s, ray, interval)
      [] s.kind = "triangle" -> TriangleHit(s, ray, interval)
      [] s.kind = "polygon" -> PolygonHit(s, ray, interval)

\* the scan of HittableList::hit from primitive i on
RECURSIVE ListScan(_, _, _, _, _, _, _)
ListScan(vec, ray, interval, i, rec, hit_anything, closest_so_far) ==
    IF i > Len(vec)
    THEN (IF hit_anything THEN Hit(rec) ELSE Miss)
    ELSE Let(PrimitiveHit(vec[i], ray, Interval(interval.min, closest_so_far)),
             LAMBDA hit :
                 IF hit.hit
                 THEN ListScan(vec, ray, interval, i + 1, hit.rec, TRUE, hit.rec.t)
                 ELSE ListScan(vec, ray, interval, i + 1, rec, hit_anything,
                               closest_so_far))

\* HittableList::hit that queries every primitive with the caller's interval
RECURSIVE ListScanUnshrunk(_, _, _, _, _, _)
ListScanUnshrunk(vec, ray, interval, i, rec, hit_anything) ==
    IF i > Len(vec)
    THEN (IF hit_anything THEN Hit(rec) ELSE Miss)
    ELSE Let(PrimitiveHit(vec[i], ray, interval),
             LAMBDA hit :
                 IF hit.hit
                 THEN ListScanUnshrunk(vec, ray, interval, i + 1, hit.rec, TRUE)
                 ELSE ListScanUnshrunk(vec, ray, interval, i + 1, rec, hit_anything))

HittableListHitUnshrunk(vec, ray, interval) ==
    ListScanUnshrunk(vec, ray, interval, 1, HitRecordNew, FALSE)

HittableListHit(vec, ray, interval) ==
    ListScan(vec, ray, interval, 1, HitRecordNew, FALSE, interval.max)

(***************************************************************************)
(* material.rs                                                             *)
(***************************************************************************)
Scatter(scattered_ray, attenuation) ==
    [scatter |-> TRUE, ray |-> scattered_ray, attenuation |-> attenuation]

NoScatter == [scatter |-> FALSE, ray |-> Ray(EMPTY, EMPTY), attenuation |-> EMPTY]

\* the draws of random_unit_vec3(): points of the open unit ball
RandomUnitVec3 ==
    {p \in {V(0, 0, 0),
            Vec3(I(0), I(0), R(1, 2)),
            Vec3(I(0), I(0), R(-1, 2)),
            Vec3(I(0), I(0), R(-3, 5)),
            Vec3(R(1, 2), I(0), I(0)),
            Vec3(I(0), R(-1, 2), R(-1, 2))} : RLt(length_squared(p), I(1))}

\* Lambertian::scatter that absorbs a degenerate direction
LambertianScatterAbsorbing(m, ray, hit_record, rand) ==
    Let(VAdd(hit_record.normal, rand), LAMBDA dir :
        IF near_zero(dir) THEN NoScatter
        ELSE Scatter(Ray(hit_record.point, dir), m.albedo))

LambertianScatter(m, ray, hit_record, rand) ==
    Let(VAdd(hit_record.normal, rand), LAMBDA dir0 :
    Let(IF near_zero(dir0) THEN hit_record.normal ELSE dir0, LAMBDA dir :
        Scatter(Ray(hit_record.point, dir), m.albedo)))

\* Metal::scatter that tests the reflection before the fuzz is added
MetalScatterUnfuzzedTest(m, ray, hit_record, rand) ==
    Let(unit(reflect(ray.dir, hit_record.normal)), LAMBDA mirror :
        IF RGt(dot(mirror, hit_record.normal), I(0))
        THEN Scatter(Ray(hit_record.point, VAdd(mirror, VScale(rand, m.fuzz))), m.albedo)
        ELSE NoScatter)

MetalScatter(m, ray, hit_record, rand) ==
    Let(VAdd(unit(reflect(ray.dir, hit_record.normal)), VScale(rand, m.fuzz)),
        LAMBDA reflected :
            IF RGt(dot(reflected, hit_record.normal), I(0))
            THEN Scatter(Ray(hit_record.point, reflected), m.albedo)
            ELSE NoScatter)

\* dyn Material dispatch; rand is the draw of random_unit_vec3()
MaterialScatter(m, ray, hit_record, rand) ==
    CASE m.kind = "lambertian" -> LambertianScatter(m, ray, hit_record, rand)
      [] m.kind = "metal" -> MetalScatter(m, ray, hit_record, rand)

(***************************************************************************)
(* camera.rs: the transport integrator                                     *)
(***************************************************************************)
\* the background of ray_color, for a ray that hits nothing
Background(ray) ==
    Let(VDiv(ray.dir, RMax(RMax(RAbs(ray.dir[1]), RAbs(ray.dir[2])), RAbs(ray.dir[3]))),
        LAMBDA unit_dir :
    Let(RMul(R(1, 2), RAdd(unit_dir[2], I(1))), LAMBDA t :
        VAdd(VScale(V(1, 1, 1), RSub(I(1), t)),
             VScale(Vec3(R(1, 2), R(7, 10), I(1)), t))))

Return(value, queried, scattered) ==
    [kind |-> "return", value |-> value, attenuation |-> EMPTY, ray |-> Ray(EMPTY, EMPTY),
     queried |-> queried, scattered |-> scattered]

Recurse(attenuation, ray) ==
    [kind |-> "recurse", value |-> EMPTY, attenuation |-> attenuation, ray |-> ray,
     queried |-> TRUE, scattered |-> TRUE]

\* ray_color that gives up one level early (depth <= 0)
RayColorBodyEarly(world, ray, depth, rand) ==
    IF depth <= 0 THEN Return(EMPTY, FALSE, FALSE)
    ELSE Let(HittableListHit(world, ray, ALMOST_FORWARD), LAMBDA hit :
             IF hit.hit
             THEN Let(MaterialScatter(hit.rec.material, ray, hit.rec, rand), LAMBDA sc :
                      IF sc.scatter THEN Recurse(sc.attenuation, sc.ray)
                      ELSE Return(EMPTY, TRUE, TRUE))
             ELSE Return(Background(ray), TRUE, FALSE))

\* ray_color that gives up one level late (depth < -1)
RayColorBodyLate(world, ray, depth, rand) ==
    IF depth < -1 THEN Return(EMPTY, FALSE, FALSE)
    ELSE Let(HittableListHit(world, ray, ALMOST_FORWARD), LAMBDA hit :
             IF hit.hit
             THEN Let(MaterialScatter(hit.rec.material, ray, hit.rec, rand), LAMBDA sc :
                      IF sc.scatter THEN Recurse(sc.attenuation, sc.ray)
                      ELSE Return(EMPTY, TRUE, TRUE))
             ELSE Return(Background(ray), TRUE, FALSE))

\* one activation of ray_color, up to its return or its recursive call
RayColorBody(world, ray, depth, rand) ==
    IF depth < 0 THEN Return(EMPTY, FALSE, FALSE)
    ELSE Let(HittableListHit(world, ray, ALMOST_FORWARD), LAMBDA hit :
             IF hit.hit
             THEN Let(MaterialScatter(hit.rec.material, ray, hit.rec, rand), LAMBDA sc :
                      IF sc.scatter THEN Recurse(sc.attenuation, sc.ray)
                      ELSE Return(EMPTY, TRUE, TRUE))
             ELSE Return(Background(ray), TRUE, FALSE))

(***************************************************************************)
(* util.rs: the textual encoding.  A text is the sequence of its           *)
(* characters.                                                             *)
(***************************************************************************)
liner_to_gamma(x) == IF RGt(x, I(0)) THEN RSqrt(x) ELSE I(0)

Digits == <<"0", "1", "2", "3", "4", "5", "6", "7", "8", "9">>

\* format!("{}", k) for an i64
RECURSIVE FormatInt(_)
FormatInt(k) ==
    IF k < 0 THEN <<"-">> \o FormatInt(-k)
    ELSE IF k < 10 THEN <<Digits[k + 1]>>
    ELSE Append(FormatInt(k \div 10), Digits[(k % 10) + 1])

\* (255.0 * liner_to_gamma(x)).trunc() as i64
ChannelValue(x) == Trunc(RMul(I(255), liner_to_gamma(x)))

\* the components of the colours the renderers store, and their channel values,
\* computed once
StoredComponents == {R(k * k, 16) : k \in 0..4}

ChannelTable == [x \in StoredComponents |-> ChannelValue(x)]

Channel(x) == IF x \in StoredComponents THEN ChannelTable[x] ELSE ChannelValue(x)

write_color(buf, color) ==
    buf \o FormatInt(Channel(color[1])) \o <<" ">>
        \o FormatInt(Channel(color[2])) \o <<" ">>
        \o FormatInt(Channel(color[3])) \o <<" ">>

\* `as u8` of a float: the cast saturates at the ends of the type
AsU8(k) == IF k < 0 THEN 0 ELSE IF k > 255 THEN 255 ELSE k

\* (255.0 * liner_to_gamma(x)).trunc() as u8
ChannelU8(x) == AsU8(Trunc(RMul(I(255), liner_to_gamma(x))))

\* Rgb([r, g, b])
process_rgb(color) == <<ChannelU8(color[1]), ChannelU8(color[2]), ChannelU8(color[3])>>

write_new_line(buf) == Append(buf, "\n")

\* format!("P3\n{} {}\n255\n", a, b)
Header(a, b) ==
    <<"P", "3", "\n">> \o FormatInt(a) \o <<" ">> \o FormatInt(b) \o <<"\n", "2", "5", "5", "\n">>

(***************************************************************************)
(* camera.rs: the camera and the two renderers                             *)
(***************************************************************************)
\* a camera of the given dimensions, its other fields as Camera::new computes
\* them from the dimensions
Camera(image_width, image_height) ==
    Let(Vec3(RDiv(RMul(I(2), I(image_width)), I(image_height)), I(0), I(0)), LAMBDA viewport_u :
    Let(V(0, -2, 0), LAMBDA viewport_v :
    Let(VDiv(viewport_u, I(image_width)), LAMBDA pixel_delta_u :
    Let(VDiv(viewport_v, I(image_height)), LAMBDA pixel_delta_v :
        [image_width |-> image_width, image_height |-> image_height,
         aspect_ratio |-> I(1),
         center |-> V(0, 0, 0),
         pixel00_loc |-> VAdd(VSub(VSub(VSub(V(0, 0, 0), V(0, 0, 1)),
                                        VDiv(viewport_u, I(2))),
                                   VDiv(viewport_v, I(2))),
                              VScale(VAdd(pixel_delta_u, pixel_delta_v), R(1, 2))),
         pixel_delta_u |-> pixel_delta_u,
         pixel_delta_v |-> pixel_delta_v,
         samples_per_pixel |-> 10, max_depth |-> 50]))))

\* Camera::new()
CameraNew == Camera(512, 512)

\* thread_rng(): the states of a generator, and the state after one pixel's draws
RngStates == {0, 1}

RngNext(rng) == 1 - rng

\* a linear intensity whose gamma encoding is exact on the grid
Shade(k) == R(((k % 4) + 1) * ((k % 4) + 1), 16)

\* render_pixel(world, rng, i, j): the mean of the samples' ray_color, which
\* depends on the pixel and on the draws of the generator
render_pixel(camera, rng, i, j) == Vec3(Shade(i), Shade(j + 2), Shade(2 * rng + 1))

\* vec![0.0; k]
Zeros(k) == [x \in 1..k |-> I(0)]

\* local_buf[(y * block_size + x * 3) as usize] = c.x(), and the next two slots
\* the three stores made at the start of local_buf, whatever the pixel
StoreColorAtStart(local_buf, at0, c) ==
    [k \in 1..Len(local_buf) |-> IF k \in 1..3 THEN c[k] ELSE local_buf[k]]

StoreColor(local_buf, at0, c) ==
    [k \in 1..Len(local_buf) |->
        IF k \in (at0 + 1)..(at0 + 3) THEN c[k - at0] ELSE local_buf[k]]

\* the first slot of the band of a worker in the shared buffer
BandStartShared(block, block_height, block_size) == 0

BandStart(block, block_height, block_size) == block * block_height * block_size

\* Mutex::lock returns only when no thread holds the guard;
\* the holder of the mutex: no thread, the calling thread, or thread w >= 1
NoHolder == 0

CallingThread == -1

MutexAlwaysAvailable(holder) == TRUE

MutexAvailable(holder) == holder = NoHolder

\* JoinHandle::join returns when the thread has finished or panicked
JoinReadyAlways(pc) == TRUE

JoinReady(pc) == pc \in {"done", "panicked"}

\* Result::unwrap on the result of join panics when the thread panicked
JoinUnwrapIgnored(pc) == FALSE

JoinUnwrapPanics(pc) == pc = "panicked"

\* a thread spawned for a band
Worker(block, rng, q) ==
    [block |-> block, camera |-> CameraNew, rng |-> rng, pc |-> "render",
     x |-> 0, y |-> 0, local_buf |-> Zeros(q), row |-> 0,
     acquired |-> 0, turn |-> 0, written |-> {}, copies |-> <<>>, rendered |-> <<>>]

(***************************************************************************)
(* State.                                                                  *)
(***************************************************************************)
VARIABLES
    \* an intersection query: the scene, the ray, the interval, the result of
    \* HittableList::hit and of each primitive's own hit
    h_world, h_ray, h_interval, h_pc, h_result, h_ind,
    \* a call of Material::scatter: the material, the incoming ray, the hit
    \* record, the draw of random_unit_vec3() and the result
    s_material, s_ray, s_rec, s_pc, s_rand, s_result,
    \* an evaluation of ray_color: the scene, the ray and depth of the innermost
    \* activation, the attenuations of the activations waiting for their
    \* recursive call, the value last returned and whether it is the innermost
    \* activation's own, and the scene queries and scatter calls made
    c_world, c_ray, c_depth, c_stack, c_pc, c_ret, c_leaf, c_queries, c_scatters,
    \* the depth the outermost activation of ray_color was called with
    c_start,
    \* a render: which renderer runs, the camera it was called on, y_blocks, the
    \* position of the calling thread and its loop indices, the shared buffer and
    \* the holder of its mutex, the threads spawned, the text being built, the
    \* generator of the sequential renderer, whether the calling thread has read
    \* the shared buffer, and the pixels the sequential renderer has computed
    r_mode, r_cam, r_y_blocks, r_pc, r_j, r_i, r_buf, r_lock, r_workers, r_str, r_rng,
    r_read, r_rendered,
    \* a call of random_on_sphere: its position, the point last drawn, the draws
    \* rejected so far (counted up to MaxTries) and the point returned
    v_pc, v_p, v_tries, v_result,
    \* an encoding of a colour: the colour, the text write_color appends and the
    \* bytes process_rgb returns
    e_color, e_pc, e_text, e_rgb

hitVars == <<h_world, h_ray, h_interval, h_pc, h_result, h_ind>>

scatterVars == <<s_material, s_ray, s_rec, s_pc, s_rand, s_result>>

colorVars ==
    <<c_world, c_ray, c_depth, c_stack, c_pc, c_ret, c_leaf, c_queries, c_scatters, c_start>>

renderVars ==
    <<r_mode, r_cam, r_y_blocks, r_pc, r_j, r_i, r_buf, r_lock, r_workers, r_str, r_rng,
      r_read, r_rendered>>

callVars == <<v_pc, v_p, v_tries, v_result, e_color, e_pc, e_text, e_rgb>>

vars == <<hitVars, scatterVars, colorVars, renderVars, callVars>>

(***************************************************************************)
(* Scenes, rays and intervals the queries are drawn from.                  *)
(***************************************************************************)
\* lib.rs: the ground material and the two metals
material_ground == Lambertian(Vec3(R(4, 5), R(4, 5), I(0)))

material_left == Metal(Vec3(R(4, 5), R(4, 5), R(4, 5)), R(3, 10))

material_right == Metal(Vec3(R(4, 5), R(3, 5), R(1, 5)), I(1))

Materials == {material_ground, material_left, material_right}

SphereA == Sphere(V(0, 0, -3), I(1), material_ground)

SphereB == Sphere(V(0, 0, -5), I(2), material_right)

TriangleA == Triangle(V(-2, -2, -2), V(2, -2, -2), V(0, 4, -2), material_left)

TriangleB == Triangle(V(-2, -2, -3), V(0, 4, -3), V(2, -2, -3), material_right)

PolygonA == Polygon(<<TriangleB, TriangleA>>)

Primitives == {SphereA, SphereB, TriangleA, TriangleB, PolygonA}

RECURSIVE SeqsUpTo(_, _)
SeqsUpTo(S, k) ==
    IF k = 0 THEN {<<>>}
    ELSE LET shorter == SeqsUpTo(S, k - 1)
         IN  shorter \cup {Append(q, x) : q \in shorter, x \in S}

Worlds == SeqsUpTo(Primitives, MaxPrims)

Rays ==
    {Ray(V(0, 0, 0), V(0, 0, -1)),
     Ray(V(0, 0, 0), V(0, 0, -2)),
     Ray(V(0, 0, -3), V(0, 0, -1)),
     Ray(V(0, 0, 0), V(0, 1, 0)),
     Ray(V(0, 0, 0), V(0, 1, -4))}

Intervals ==
    {ALMOST_FORWARD, Interval(I(0), I(2)), Interval(I(2), INFINITY), Interval(I(1), I(5))}

NotQueried == [done |-> FALSE, res |-> Miss]

\* no intersection query is being made
HitIdle ==
    /\ h_world = <<>>
    /\ h_ray = Ray(EMPTY, EMPTY)
    /\ h_interval = FORWARD
    /\ h_pc = "idle"
    /\ h_result = Miss
    /\ h_ind = <<>>

\* no scatter call is being made
ScatterIdle ==
    /\ s_material = Lambertian(EMPTY)
    /\ s_ray = Ray(EMPTY, EMPTY)
    /\ s_rec = HitRecordNew
    /\ s_pc = "idle"
    /\ s_rand = EMPTY
    /\ s_result = NoScatter

\* no ray_color evaluation is being made
ColorIdle ==
    /\ c_world = <<>>
    /\ c_start = 0
    /\ c_ray = Ray(EMPTY, EMPTY)
    /\ c_depth = 0
    /\ c_stack = <<>>
    /\ c_pc = "idle"
    /\ c_ret = EMPTY
    /\ c_leaf = FALSE
    /\ c_queries = 0
    /\ c_scatters = 0

\* no call of random_on_sphere is being made
SamplerIdle ==
    /\ v_pc = "idle"
    /\ v_p = EMPTY
    /\ v_tries = 0
    /\ v_result = EMPTY

\* no colour is being encoded
EncodeIdle ==
    /\ e_color = EMPTY
    /\ e_pc = "idle"
    /\ e_text = <<>>
    /\ e_rgb = <<>>

\* no render is being made
RenderIdle ==
    /\ r_mode = "idle"
    /\ r_cam = CameraNew
    /\ r_y_blocks = 0
    /\ r_pc = "idle"
    /\ r_j = 0
    /\ r_i = 0
    /\ r_buf = <<>>
    /\ r_lock = NoHolder
    /\ r_workers = <<>>
    /\ r_str = <<>>
    /\ r_rng = 0
    /\ r_read = FALSE
    /\ r_rendered = <<>>

(***************************************************************************)
(* Intersection queries.                                                   *)
(***************************************************************************)
HitInit ==
    /\ ScatterIdle /\ ColorIdle /\ RenderIdle /\ SamplerIdle /\ EncodeIdle
    /\ h_world \in Worlds
    /\ h_ray \in Rays
    /\ h_interval \in Intervals
    /\ h_pc = "ready"
    /\ h_result = Miss
    /\ h_ind = [i \in 1..Len(h_world) |-> NotQueried]

\* world.hit(ray, interval)
QueryList ==
    /\ h_pc = "ready"
    /\ h_result' = HittableListHit(h_world, h_ray, h_interval)
    /\ h_pc' = "done"
    /\ UNCHANGED <<h_world, h_ray, h_interval, h_ind, scatterVars, colorVars, renderVars, callVars>>

\* (*s).hit(ray, interval) on primitive i alone
QueryPrimitive(i) ==
    /\ ~h_ind[i].done
    /\ h_ind' = [h_ind EXCEPT ![i] =
                    [done |-> TRUE, res |-> PrimitiveHit(h_world[i], h_ray, h_interval)]]
    /\ UNCHANGED <<h_world, h_ray, h_interval, h_pc, h_result, scatterVars, colorVars, renderVars, callVars>>

HitNext ==
    \/ QueryList
    \/ \E i \in 1..Len(h_world) : QueryPrimitive(i)

SpecHit == HitInit /\ [][HitNext]_vars

(***************************************************************************)
(* Intersection queries on scenes whose primitives hit at the same t.      *)
(***************************************************************************)
\* SphereA again, of another material
SphereA2 == Sphere(V(0, 0, -3), I(1), material_right)

\* a triangle in the plane of TriangleA, of another material
TriangleC == Triangle(V(-3, -1, -2), V(3, -1, -2), V(0, 3, -2), material_right)

PolygonAC == Polygon(<<TriangleA, TriangleC>>)

PolygonCA == Polygon(<<TriangleC, TriangleA>>)

TiePrimitives == {SphereA, SphereA2, TriangleA, TriangleC, PolygonAC, PolygonCA}

TieInit ==
    /\ ScatterIdle /\ ColorIdle /\ RenderIdle /\ SamplerIdle /\ EncodeIdle
    /\ h_world \in SeqsUpTo(TiePrimitives, MaxPrims)
    /\ h_ray \in {Ray(V(0, 0, 0), V(0, 0, -1)), Ray(V(0, 0, 0), V(0, 0, -2))}
    /\ h_interval \in {ALMOST_FORWARD, Interval(I(0), I(2))}
    /\ h_pc = "ready"
    /\ h_result = Miss
    /\ h_ind = [i \in 1..Len(h_world) |-> NotQueried]

SpecTie == TieInit /\ [][HitNext]_vars

(***************************************************************************)
(* Scatter calls.                                                          *)
(***************************************************************************)
\* the extra metal: fuzz is not clamped by Metal::new
material_rough == Metal(Vec3(R(1, 2), R(1, 2), R(1, 2)), I(2))

ScatterRays ==
    {Ray(V(0, 0, 0), V(0, 0, -1)),
     Ray(V(0, 0, 0), V(0, 4, -3)),
     Ray(V(0, 0, -3), V(0, 0, 1)),
     Ray(V(0, 0, 0), V(0, 3, 0))}

\* unit outward normals of the surface hit
OutwardNormals == {V(0, 0, 1), V(0, 0, -1), V(0, 1, 0)}

ScatterInit ==
    /\ HitIdle /\ ColorIdle /\ RenderIdle /\ SamplerIdle /\ EncodeIdle
    /\ s_material \in Materials \cup {material_rough}
    /\ s_ray \in ScatterRays
    /\ \E n \in OutwardNormals :
          s_rec = set_face_normal([HitRecordNew EXCEPT !.t = I(2), !.point = at(s_ray, I(2))],
                                  s_ray, n)
    /\ s_pc = "ready"
    /\ s_rand = EMPTY
    /\ s_result = NoScatter

\* material.scatter(ray, hit_record), with the draw it makes
ScatterCall ==
    /\ s_pc = "ready"
    /\ \E rand \in RandomUnitVec3 :
          /\ s_rand' = rand
          /\ s_result' = MaterialScatter(s_material, s_ray, s_rec, rand)
    /\ s_pc' = "done"
    /\ UNCHANGED <<s_material, s_ray, s_rec, hitVars, colorVars, renderVars, callVars>>

ScatterNext == ScatterCall

SpecScatter == ScatterInit /\ [][ScatterNext]_vars

(***************************************************************************)
(* Evaluations of ray_color.                                               *)
(***************************************************************************)
\* camera rays along the axes: above the scene, into it, and from inside SphereA
ColorRays ==
    {Ray(V(0, 0, 0), V(0, 0, -1)),
     Ray(V(0, 0, 0), V(0, 0, -2)),
     Ray(V(0, 0, -3), V(0, 0, -1)),
     Ray(V(0, 0, 0), V(0, 1, 0))}

\* the scenes rendered: empty, single primitives, and pairs that bounce a ray
ColorWorlds ==
    {<<>>, <<SphereA>>, <<SphereB>>, <<TriangleA>>, <<SphereA, TriangleB>>,
     <<SphereB, SphereA>>, <<PolygonA>>}

\* the draws of random_unit_vec3() made while rendering: on the axis of the
\* camera rays, so that every scattered ray stays on it
ColorDraws == {V(0, 0, 0), Vec3(I(0), I(0), R(1, 2)), Vec3(I(0), I(0), R(-1, 2))}

ColorInit ==
    /\ HitIdle /\ ScatterIdle /\ RenderIdle /\ SamplerIdle /\ EncodeIdle
    /\ c_world \in ColorWorlds
    /\ c_ray \in ColorRays
    /\ c_depth \in 0..MaxDepth
    /\ c_start = c_depth
    /\ c_stack = <<>>
    /\ c_pc = "call"
    /\ c_ret = EMPTY
    /\ c_leaf = FALSE
    /\ c_queries = 0
    /\ c_scatters = 0

\* ray_color(ray, world, depth) runs to its return or to its recursive call
ColorCall ==
    /\ c_pc = "call"
    /\ \E rand \in ColorDraws :
          LET step == RayColorBody(c_world, c_ray, c_depth, rand)
          IN  /\ c_queries' = c_queries + (IF step.queried THEN 1 ELSE 0)
              /\ c_scatters' = c_scatters + (IF step.scattered THEN 1 ELSE 0)
              /\ IF step.kind = "recurse"
                 THEN /\ c_stack' = Append(c_stack, step.attenuation)
                      /\ c_ray' = step.ray
                      /\ c_depth' = c_depth - 1
                      /\ UNCHANGED <<c_pc, c_ret, c_leaf>>
                 ELSE /\ c_ret' = step.value
                      /\ c_leaf' = TRUE
                      /\ c_pc' = "return"
                      /\ UNCHANGED <<c_stack, c_ray, c_depth>>
    /\ UNCHANGED <<c_world, c_start, hitVars, scatterVars, renderVars, callVars>>

\* the caller resumes: attenuation * (the value returned)
ColorReturn ==
    /\ c_pc = "return"
    /\ IF c_stack = <<>>
       THEN /\ c_pc' = "done"
            /\ UNCHANGED <<c_ret, c_stack>>
       ELSE /\ c_ret' = VMul(c_stack[Len(c_stack)], c_ret)
            /\ c_stack' = SubSeq(c_stack, 1, Len(c_stack) - 1)
            /\ UNCHANGED c_pc
    /\ c_leaf' = FALSE
    /\ UNCHANGED <<c_world, c_start, c_ray, c_depth, c_queries, c_scatters,
                   hitVars, scatterVars, renderVars, callVars>>

ColorNext == ColorCall \/ ColorReturn

SpecColor == ColorInit /\ [][ColorNext]_vars

(***************************************************************************)
(* Renders: parallel_render and render.                                    *)
(***************************************************************************)
\* a band height that covers the remainder rows
block_height_rounded_up == (r_cam.image_height + r_y_blocks - 1) \div r_y_blocks

block_height == r_cam.image_height \div r_y_blocks

block_size == r_cam.image_width * 3

RenderInit ==
    /\ HitIdle /\ ScatterIdle /\ ColorIdle /\ SamplerIdle /\ EncodeIdle
    /\ r_mode \in {"parallel", "sequential"}
    /\ r_cam \in {Camera(w, h) : w \in 1..MaxW, h \in 1..MaxH}
    /\ r_y_blocks \in (IF r_mode = "parallel" THEN 0..MaxY ELSE {0})
    /\ r_pc = "start"
    /\ r_j = 0
    /\ r_i = 0
    /\ r_buf = <<>>
    /\ r_lock = NoHolder
    /\ r_workers = <<>>
    /\ r_str = <<>>
    /\ r_rng = 0
    /\ r_read = FALSE
    /\ r_rendered = <<>>

\* parallel_render up to the allocation of the shared buffer; the division by
\* y_blocks panics when y_blocks is 0
D_Start ==
    /\ r_mode = "parallel" /\ r_pc = "start"
    /\ IF r_y_blocks = 0
       THEN r_pc' = "panicked" /\ UNCHANGED r_buf
       ELSE /\ r_buf' = Zeros(r_cam.image_height * r_cam.image_width * 3)
            /\ r_pc' = "spawn"
    /\ UNCHANGED <<r_mode, r_cam, r_y_blocks, r_j, r_i, r_lock, r_workers, r_str, r_rng,
                   r_read, r_rendered, hitVars, scatterVars, colorVars,
                   callVars>>

\* thread::spawn for block r_j; the thread makes its camera, its generator and
\* its local buffer
D_Spawn ==
    /\ r_pc = "spawn"
    /\ \E rng \in RngStates :
          r_workers' = Append(r_workers, Worker(r_j, rng, block_height * block_size))
    /\ IF r_j + 1 = r_y_blocks
       THEN r_pc' = "join" /\ r_j' = 0
       ELSE r_pc' = "spawn" /\ r_j' = r_j + 1
    /\ UNCHANGED <<r_mode, r_cam, r_y_blocks, r_i, r_buf, r_lock, r_str, r_rng,
                   r_read, r_rendered, hitVars, scatterVars, colorVars,
                   callVars>>

\* handle.join().unwrap() for the next handle
D_Join ==
    /\ r_pc = "join"
    /\ JoinReady(r_workers[r_j + 1].pc)
    /\ IF JoinUnwrapPanics(r_workers[r_j + 1].pc)
       THEN r_pc' = "panicked" /\ UNCHANGED r_j
       ELSE IF r_j + 1 = r_y_blocks
            THEN r_pc' = "lock" /\ r_j' = 0
            ELSE r_pc' = "join" /\ r_j' = r_j + 1
    /\ UNCHANGED <<r_mode, r_cam, r_y_blocks, r_i, r_buf, r_lock, r_workers, r_str, r_rng,
                   r_read, r_rendered, hitVars, scatterVars, colorVars,
                   callVars>>

\* let buf = buf.lock().unwrap() in the calling thread
D_Lock ==
    /\ r_pc = "lock"
    /\ MutexAvailable(r_lock)
    /\ r_lock' = CallingThread
    /\ r_pc' = "header"
    /\ UNCHANGED <<r_mode, r_cam, r_y_blocks, r_j, r_i, r_buf, r_workers, r_str, r_rng,
                   r_read, r_rendered, hitVars, scatterVars, colorVars,
                   callVars>>

\* str_buf.push_str(format!("P3\n{} {}\n255\n", self.image_width, self.image_width))
D_Header ==
    /\ r_pc = "header"
    /\ r_str' = Header(r_cam.image_width, r_cam.image_width)
    /\ r_pc' = "encode"
    /\ r_j' = 0
    /\ r_i' = 0
    /\ UNCHANGED <<r_mode, r_cam, r_y_blocks, r_buf, r_lock, r_workers, r_rng,
                   r_read, r_rendered, hitVars, scatterVars, colorVars,
                   callVars>>

\* the three slots of pixel (r_i, r_j) are read and encoded
D_WriteColor ==
    /\ r_pc = "encode"
    /\ r_j < r_cam.image_height /\ r_i < r_cam.image_width
    /\ r_str' = write_color(r_str, Vec3(r_buf[r_j * block_size + r_i * 3 + 1],
                                        r_buf[r_j * block_size + r_i * 3 + 2],
                                        r_buf[r_j * block_size + r_i * 3 + 3]))
    /\ r_i' = r_i + 1
    /\ r_read' = TRUE
    /\ UNCHANGED <<r_mode, r_cam, r_y_blocks, r_pc, r_j, r_buf, r_lock, r_workers, r_rng,
                   r_rendered, hitVars, scatterVars, colorVars,
                   callVars>>

D_NewLine ==
    /\ r_pc = "encode"
    /\ r_j < r_cam.image_height /\ r_i = r_cam.image_width
    /\ r_str' = write_new_line(r_str)
    /\ r_j' = r_j + 1
    /\ r_i' = 0
    /\ UNCHANGED <<r_mode, r_cam, r_y_blocks, r_pc, r_buf, r_lock, r_workers, r_rng,
                   r_read, r_rendered, hitVars, scatterVars, colorVars,
                   callVars>>

\* return str_buf; the guard of the shared buffer is dropped
D_Return ==
    /\ r_pc = "encode"
    /\ r_j = r_cam.image_height
    /\ r_pc' = "returned"
    /\ r_lock' = NoHolder
    /\ UNCHANGED <<r_mode, r_cam, r_y_blocks, r_j, r_i, r_buf, r_workers, r_str, r_rng,
                   r_read, r_rendered, hitVars, scatterVars, colorVars,
                   callVars>>

\* camera.render_pixel(&world, &mut rng, x, block * block_height + y) and the
\* three stores into local_buf
W_RenderPixel(w) ==
    /\ r_workers[w].pc = "render"
    /\ r_workers[w].y < block_height
    /\ Let(r_workers[w], LAMBDA me :
       Let(render_pixel(me.camera, me.rng, me.x, me.block * block_height + me.y), LAMBDA c :
           r_workers' = [r_workers EXCEPT ![w] =
               [me EXCEPT !.local_buf = StoreColor(me.local_buf, me.y * block_size + me.x * 3, c),
                          !.rendered = Append(me.rendered,
                                              <<me.x, me.block * block_height + me.y, c>>),
                          !.rng = RngNext(me.rng),
                          !.x = IF me.x + 1 = r_cam.image_width THEN 0 ELSE me.x + 1,
                          !.y = IF me.x + 1 = r_cam.image_width THEN me.y + 1 ELSE me.y]]))
    /\ UNCHANGED <<r_mode, r_cam, r_y_blocks, r_pc, r_j, r_i, r_buf, r_lock, r_str, r_rng,
                   r_read, r_rendered, hitVars, scatterVars, colorVars,
                   callVars>>

\* a fault inside render_pixel unwinds the thread
W_Panic(w) ==
    /\ r_workers[w].pc = "render"
    /\ r_workers[w].y < block_height
    /\ r_workers' = [r_workers EXCEPT ![w].pc = "panicked"]
    /\ UNCHANGED <<r_mode, r_cam, r_y_blocks, r_pc, r_j, r_i, r_buf, r_lock, r_str, r_rng,
                   r_read, r_rendered, hitVars, scatterVars, colorVars,
                   callVars>>

\* let mut buf = buf.lock().unwrap() in the thread, its loops finished
W_Lock(w) ==
    /\ r_workers[w].pc = "render"
    /\ r_workers[w].y = block_height
    /\ MutexAvailable(r_lock)
    /\ r_lock' = w
    /\ r_workers' = [r_workers EXCEPT
           ![w].pc = "copy", ![w].row = 0,
           ![w].acquired = r_workers[w].acquired + 1,
           ![w].turn = Cardinality({v \in 1..Len(r_workers) : r_workers[v].acquired > 0})]
    /\ UNCHANGED <<r_mode, r_cam, r_y_blocks, r_pc, r_j, r_i, r_buf, r_str, r_rng,
                   r_read, r_rendered, hitVars, scatterVars, colorVars,
                   callVars>>

\* copy_from_slice, one row of the band at a time
W_CopyRow(w) ==
    /\ r_workers[w].pc = "copy"
    /\ r_workers[w].row < block_height
    /\ Let(r_workers[w], LAMBDA me :
       Let(BandStart(me.block, block_height, block_size) + me.row * block_size, LAMBDA to :
           /\ r_buf' = [k \in 1..Len(r_buf) |->
                           IF k \in (to + 1)..(to + block_size)
                           THEN me.local_buf[k - to + me.row * block_size]
                           ELSE r_buf[k]]
           /\ r_workers' = [r_workers EXCEPT ![w] =
                  [me EXCEPT !.row = me.row + 1,
                             !.written = me.written \cup (to..(to + block_size - 1)),
                             !.copies = Append(me.copies, to)]]))
    /\ UNCHANGED <<r_mode, r_cam, r_y_blocks, r_pc, r_j, r_i, r_lock, r_str, r_rng,
                   r_read, r_rendered, hitVars, scatterVars, colorVars,
                   callVars>>

\* a thread that finishes without dropping its guard
W_FinishHoldingGuard(w) ==
    /\ r_workers[w].pc = "copy"
    /\ r_workers[w].row = block_height
    /\ r_workers' = [r_workers EXCEPT ![w].pc = "done"]
    /\ UNCHANGED <<r_mode, r_cam, r_y_blocks, r_pc, r_j, r_i, r_buf, r_lock, r_str, r_rng,
                   r_read, r_rendered, hitVars, scatterVars, colorVars,
                   callVars>>

\* the closure ends: the guard is dropped and the thread finishes
W_Unlock(w) ==
    /\ r_workers[w].pc = "copy"
    /\ r_workers[w].row = block_height
    /\ r_lock' = NoHolder
    /\ r_workers' = [r_workers EXCEPT ![w].pc = "done"]
    /\ UNCHANGED <<r_mode, r_cam, r_y_blocks, r_pc, r_j, r_i, r_buf, r_str, r_rng,
                   r_read, r_rendered, hitVars, scatterVars, colorVars,
                   callVars>>

\* render: the header and the generator
R_Start ==
    /\ r_mode = "sequential" /\ r_pc = "start"
    /\ r_str' = Header(r_cam.image_width, r_cam.image_height)
    /\ r_rng' \in RngStates
    /\ r_pc' = "pixels"
    /\ UNCHANGED <<r_mode, r_cam, r_y_blocks, r_j, r_i, r_buf, r_lock, r_workers,
                   r_read, r_rendered, hitVars, scatterVars, colorVars,
                   callVars>>

\* render: pixel (r_i, r_j) is computed and encoded
R_Pixel ==
    /\ r_pc = "pixels"
    /\ r_j < r_cam.image_height /\ r_i < r_cam.image_width
    /\ Let(render_pixel(r_cam, r_rng, r_i, r_j), LAMBDA c :
           /\ r_str' = write_color(r_str, c)
           /\ r_rendered' = Append(r_rendered, <<r_i, r_j, c>>))
    /\ r_rng' = RngNext(r_rng)
    /\ r_i' = r_i + 1
    /\ UNCHANGED <<r_mode, r_cam, r_y_blocks, r_pc, r_j, r_buf, r_lock, r_workers,
                   r_read, hitVars, scatterVars, colorVars,
                   callVars>>

R_NewLine ==
    /\ r_pc = "pixels"
    /\ r_j < r_cam.image_height /\ r_i = r_cam.image_width
    /\ r_str' = write_new_line(r_str)
    /\ r_j' = r_j + 1
    /\ r_i' = 0
    /\ UNCHANGED <<r_mode, r_cam, r_y_blocks, r_pc, r_buf, r_lock, r_workers, r_rng,
                   r_read, r_rendered, hitVars, scatterVars, colorVars,
                   callVars>>

R_Return ==
    /\ r_pc = "pixels"
    /\ r_j = r_cam.image_height
    /\ r_pc' = "returned"
    /\ UNCHANGED <<r_mode, r_cam, r_y_blocks, r_j, r_i, r_buf, r_lock, r_workers, r_str,
                   r_rng, r_read, r_rendered, hitVars, scatterVars, colorVars,
                   callVars>>

RenderNext ==
    \/ D_Start \/ D_Spawn \/ D_Join \/ D_Lock \/ D_Header
    \/ D_WriteColor \/ D_NewLine \/ D_Return
    \/ \E w \in 1..Len(r_workers) :
          \/ W_RenderPixel(w) \/ W_Panic(w) \/ W_Lock(w) \/ W_CopyRow(w) \/ W_Unlock(w)
    \/ R_Start \/ R_Pixel \/ R_NewLine \/ R_Return

SpecRender == RenderInit /\ [][RenderNext]_vars

\* the steps of the calling thread of parallel_render
DriverStep ==
    \/ D_Start \/ D_Spawn \/ D_Join \/ D_Lock \/ D_Header
    \/ D_WriteColor \/ D_NewLine \/ D_Return

\* the steps of the thread spawned for band w - 1 when render_pixel returns
WorkerStep(w) ==
    /\ w \in 1..Len(r_workers)
    /\ (W_RenderPixel(w) \/ W_Lock(w) \/ W_CopyRow(w) \/ W_Unlock(w))

\* parallel_render(y_blocks, world) with y_blocks >= 1
ParallelInit ==
    /\ RenderInit
    /\ r_mode = "parallel"
    /\ r_y_blocks >= 1

\* the threads of parallel_render when no render_pixel call panics
ParallelNext == DriverStep \/ \E w \in 1..MaxY : WorkerStep(w)

\* fair scheduling: a thread that can take a step is eventually run
SpecRenderFair ==
    /\ ParallelInit
    /\ [][ParallelNext]_vars
    /\ WF_vars(DriverStep)
    /\ \A w \in 1..MaxY : WF_vars(WorkerStep(w))

(***************************************************************************)
(* vec3.rs: the rejection sampler random_on_sphere.                        *)
(***************************************************************************)
\* the values gen_range(-1.0..1.0) is drawn from: the upper end is excluded
RangeGrid == {I(-1), R(-1, 2), I(0), R(1, 2)}

\* Vec3::random_range(-1.0, 1.0)
random_range == {Vec3(a, b, c) : a \in RangeGrid, b \in RangeGrid, c \in RangeGrid}

\* a test that also accepts the points of the unit sphere
AcceptsClosed(p) == RLe(length_squared(p), I(1))

\* p.length_squared() < 1.0
Accepts(p) == RLt(length_squared(p), I(1))

\* the draws on which the loop returns, and those on which it goes round
Accepted == {p \in random_range : Accepts(p)}
Rejected == {p \in random_range : ~Accepts(p)}

SamplerInit ==
    /\ HitIdle /\ ScatterIdle /\ ColorIdle /\ RenderIdle /\ EncodeIdle
    /\ v_pc = "loop"
    /\ v_p = EMPTY
    /\ v_tries = 0
    /\ v_result = EMPTY

\* an iteration of the loop whose draw is accepted: return p
SampleAccept ==
    /\ v_pc = "loop"
    /\ \E p \in Accepted :
          /\ v_p' = p
          /\ v_result' = p
    /\ v_pc' = "returned"
    /\ UNCHANGED <<v_tries, e_color, e_pc, e_text, e_rgb,
                   hitVars, scatterVars, colorVars, renderVars>>

\* an iteration of the loop whose draw is rejected: the loop goes round
SampleReject ==
    /\ v_pc = "loop"
    /\ \E p \in Rejected :
          /\ v_p' = p
    /\ v_tries' = IF v_tries < MaxTries THEN v_tries + 1 ELSE v_tries
    /\ UNCHANGED <<v_pc, v_result, e_color, e_pc, e_text, e_rgb,
                   hitVars, scatterVars, colorVars, renderVars>>

SamplerNext == SampleAccept \/ SampleReject

\* fairness: a draw that is accepted eventually occurs
SpecSampler == SamplerInit /\ [][SamplerNext]_vars /\ WF_vars(SampleAccept)

(***************************************************************************)
(* util.rs: the encoders write_color and process_rgb applied to a colour.  *)
(***************************************************************************)
\* components of a linear colour: 0, values in (0, 1], and values above 1
LinearGrid == {I(0), R(1, 16), R(1, 4), R(1, 2), I(1), R(9, 4), I(4)}

LinearColors == {Vec3(a, b, c) : a \in LinearGrid, b \in LinearGrid, c \in LinearGrid}

EncodeInit ==
    /\ HitIdle /\ ScatterIdle /\ ColorIdle /\ RenderIdle /\ SamplerIdle
    /\ e_color \in LinearColors
    /\ e_pc = "start"
    /\ e_text = <<>>
    /\ e_rgb = <<>>

\* write_color(&mut buf, color) on an empty buf
E_WriteColor ==
    /\ e_pc = "start"
    /\ e_text' = write_color(<<>>, e_color)
    /\ e_pc' = "written"
    /\ UNCHANGED <<e_color, e_rgb, v_pc, v_p, v_tries, v_result,
                   hitVars, scatterVars, colorVars, renderVars>>

\* process_rgb(color)
E_ProcessRgb ==
    /\ e_pc = "start"
    /\ e_rgb' = process_rgb(e_color)
    /\ e_pc' = "processed"
    /\ UNCHANGED <<e_color, e_text, v_pc, v_p, v_tries, v_result,
                   hitVars, scatterVars, colorVars, renderVars>>

EncodeNext == E_WriteColor \/ E_ProcessRgb

SpecEncode == EncodeInit /\ [][EncodeNext]_vars

(***************************************************************************)
(* Properties of the intersection queries (SpecHit).                       *)
(***************************************************************************)
AllQueried == h_pc = "done" /\ \A i \in 1..Len(h_world) : h_ind[i].done

IndividualHits == {i \in 1..Len(h_world) : h_ind[i].res.hit}

\* C1: HittableList.hit returns Miss exactly when every primitive, queried alone
\* with the original interval, returns Miss; otherwise it returns a Hit whose t
\* is the minimum t among the primitives' own Hits.
C1_ListHitIsNearest ==
    AllQueried =>
        /\ h_result.hit <=> IndividualHits # {}
        /\ h_result.hit =>
              \E i \in IndividualHits :
                  /\ h_result.rec.t = h_ind[i].res.rec.t
                  /\ \A k \in IndividualHits : RLe(h_ind[i].res.rec.t, h_ind[k].res.rec.t)

\* two primitives hit, the first nearer than the second: the second is cut off
\* by the shrunk interval
C1_Witness ==
    /\ AllQueried
    /\ Len(h_world) = 2
    /\ IndividualHits = {1, 2}
    /\ RLt(h_ind[1].res.rec.t, h_ind[2].res.rec.t)
    /\ h_result.rec.t = h_ind[1].res.rec.t

\* every result of a hit query made so far
Results ==
    {h_ind[i].res : i \in {k \in 1..Len(h_world) : h_ind[k].done}}
        \cup (IF h_pc = "done" THEN {h_result} ELSE {})

\* C6, as stated: the normal of every Hit has dot(ray.dir, normal) <= 0 when
\* front_face is true and dot(ray.dir, normal) > 0 when front_face is false.
C6_NormalFollowsFrontFace ==
    \A r \in Results :
        r.hit => IF r.rec.front_face
                 THEN RLe(dot(h_ray.dir, r.rec.normal), I(0))
                 ELSE RGt(dot(h_ray.dir, r.rec.normal), I(0))

\* C6, amended: the normal of every Hit opposes the ray, dot(ray.dir, normal) <= 0,
\* whether front_face is true or false.
C6_NormalOpposesRay ==
    \A r \in Results : r.hit => RLe(dot(h_ray.dir, r.rec.normal), I(0))

\* a back-face Hit of a sphere, of a triangle and of the list
C6_Witness ==
    /\ AllQueried
    /\ h_result.hit /\ ~h_result.rec.front_face
    /\ \E i \in IndividualHits : h_world[i].kind = "sphere" /\ ~h_ind[i].res.rec.front_face
    /\ \E i \in IndividualHits : h_world[i].kind # "sphere" /\ ~h_ind[i].res.rec.front_face

StrictlyInside(x) == RLt(h_interval.min, x) /\ RLt(x, h_interval.max)

\* C9: Sphere.hit returns the smaller root whenever it lies strictly inside the
\* interval, the larger root only when the smaller does not and the larger does,
\* and Miss when the discriminant is negative or neither root is strictly inside.
C9_SphereRootSelection ==
    \A i \in 1..Len(h_world) :
        (h_ind[i].done /\ h_world[i].kind = "sphere") =>
            LET q == SphereQuadratic(h_world[i], h_ray)
                res == h_ind[i].res
                neg == RLt(q.discriminant, I(0))
            IN  /\ RLe(q.root1, q.root2) \/ neg
                /\ (~neg /\ StrictlyInside(q.root1))
                       => (res.hit /\ res.rec.t = q.root1)
                /\ (~neg /\ ~StrictlyInside(q.root1) /\ StrictlyInside(q.root2))
                       => (res.hit /\ res.rec.t = q.root2)
                /\ (neg \/ (~StrictlyInside(q.root1) /\ ~StrictlyInside(q.root2)))
                       => ~res.hit

\* one sphere answers with its larger root, another with the smaller of two
\* roots strictly inside the interval
C9_Witness ==
    /\ \E i \in 1..Len(h_world) :
          /\ h_ind[i].done /\ h_world[i].kind = "sphere" /\ h_ind[i].res.hit
          /\ h_ind[i].res.rec.t = SphereQuadratic(h_world[i], h_ray).root2
          /\ h_ind[i].res.rec.t # SphereQuadratic(h_world[i], h_ray).root1
    /\ \E i \in 1..Len(h_world) :
          /\ h_ind[i].done /\ h_world[i].kind = "sphere" /\ h_ind[i].res.hit
          /\ StrictlyInside(SphereQuadratic(h_world[i], h_ray).root2)
          /\ h_ind[i].res.rec.t = SphereQuadratic(h_world[i], h_ray).root1
          /\ h_ind[i].res.rec.t # SphereQuadratic(h_world[i], h_ray).root2

(***************************************************************************)
(* Properties of the scatter calls (SpecScatter).                          *)
(***************************************************************************)
\* the reflected direction of Metal::scatter for the draw made, fuzz included
FuzzedReflection ==
    VAdd(unit(reflect(s_ray.dir, s_rec.normal)), VScale(s_rand, s_material.fuzz))

\* C7: Lambertian.scatter always returns Scatter; Metal.scatter returns NoScatter
\* exactly when dot(reflected, normal) <= 0 for the fuzz-perturbed reflected
\* direction, and Scatter with the albedo as attenuation otherwise.
C7_ScatterOutcome ==
    s_pc = "done" =>
        /\ s_material.kind = "lambertian" => s_result.scatter
        /\ s_material.kind = "metal" =>
              /\ ~s_result.scatter <=> RLe(dot(FuzzedReflection, s_rec.normal), I(0))
              /\ s_result.scatter => s_result.attenuation = s_material.albedo

\* a metal whose mirror direction leaves the surface but whose fuzzed direction
\* lies exactly in it: the ray is absorbed
C7_Witness ==
    /\ s_pc = "done"
    /\ s_material.kind = "metal"
    /\ ~s_result.scatter
    /\ RGt(dot(unit(reflect(s_ray.dir, s_rec.normal)), s_rec.normal), I(0))
    /\ REq(dot(FuzzedReflection, s_rec.normal), I(0))

(***************************************************************************)
(* Properties of ray_color (SpecColor).                                    *)
(***************************************************************************)
\* the innermost activation of ray_color has just returned
LeafReturned == c_pc = "return" /\ c_leaf

\* no primitive of the scene is hit by the ray of the innermost activation
NoIntersection ==
    \A i \in 1..Len(c_world) : ~PrimitiveHit(c_world[i], c_ray, ALMOST_FORWARD).hit

\* white*(1-t) + sky*t with t = 0.5*(y+1), y taken from the direction divided by
\* its largest absolute component
Gradient(dir) ==
    LET m == RMax(RMax(RAbs(dir[1]), RAbs(dir[2])), RAbs(dir[3]))
        t == RDiv(RAdd(RDiv(dir[2], m), I(1)), I(2))
    IN  Vec3(RSub(I(1), RDiv(t, I(2))), RSub(I(1), RMul(R(3, 10), t)), I(1))

\* C8, as stated: for a ray with no intersecting primitive, and for every depth
\* argument, ray_color returns exactly the background gradient.
C8_MissIsBackground ==
    (LeafReturned /\ NoIntersection) => c_ret = Gradient(c_ray.dir)

\* C8, amended: for a ray with no intersecting primitive, and for every depth
\* argument that is not negative, ray_color returns exactly the background
\* gradient; for a negative depth it returns black.
C8_MissIsBackgroundAboveZero ==
    (LeafReturned /\ NoIntersection) =>
        c_ret = (IF c_depth >= 0 THEN Gradient(c_ray.dir) ELSE EMPTY)

\* a scattered ray that hits nothing is given the gradient at depth 0
C8_Witness ==
    /\ LeafReturned /\ NoIntersection
    /\ c_depth = 0
    /\ c_stack # <<>>
    /\ c_ret = Gradient(c_ray.dir)
    /\ c_ret # EMPTY

(***************************************************************************)
(* Properties of the renders (SpecRender).                                 *)
(***************************************************************************)
Workers == 1..Len(r_workers)

\* the calling thread of parallel_render is past its joins
AllJoined == r_mode = "parallel" /\ r_pc \in {"lock", "header", "encode", "returned"}

\* the slots of the shared buffer (counted from 1) that belong to the band of w
Region(w) ==
    ((w - 1) * block_height * block_size + 1)..(w * block_height * block_size)

\* the colour worker w computed for the slot k of its band, if it computed it
ComputedAt(w, k) ==
    {e[3][((k - 1) % 3) + 1] : e \in
        {r_workers[w].rendered[n] : n \in
            {m \in 1..Len(r_workers[w].rendered) :
                (r_workers[w].rendered[m][2] * r_cam.image_width
                    + r_workers[w].rendered[m][1]) * 3 = ((k - 1) \div 3) * 3}}}

\* C2: the index ranges of the shared buffer written by any two distinct workers
\* are disjoint, and after all workers have joined every slot holds what the
\* worker owning it computed for it (0.0 where no worker owns it), whatever the
\* order in which the workers took the lock and completed.
C2_DisjointBands ==
    /\ \A a \in Workers : \A b \in Workers :
          a # b => r_workers[a].written \cap r_workers[b].written = {}
    /\ AllJoined =>
          \A k \in 1..Len(r_buf) :
              IF \E w \in Workers : k \in Region(w)
              THEN \E w \in Workers : k \in Region(w) /\ ComputedAt(w, k) = {r_buf[k]}
              ELSE r_buf[k] = I(0)

\* two workers have joined, the second having taken the lock before the first
C2_Witness ==
    /\ AllJoined
    /\ Len(r_workers) = 2
    /\ r_workers[2].turn = 0 /\ r_workers[1].turn = 1
    /\ r_workers[1].written # {} /\ r_workers[2].written # {}
    /\ \A k \in 1..Len(r_buf) : r_buf[k] # I(0)

\* the band of w in the shared buffer holds only initial values
RegionInitial(w) == \A k \in Region(w) : r_buf[k] = I(0)

\* the band of w in the shared buffer is the local buffer of w
RegionFinal(w) ==
    \A k \in Region(w) : r_buf[k] = r_workers[w].local_buf[k - (w - 1) * block_height * block_size]

\* C3: each worker acquires the mutex once, only after every pixel of its band
\* is in its local buffer, and writes its whole band in that critical section;
\* at most one worker is in the critical section at a time, and whenever the
\* lock is free each band's region is entirely initial or entirely final.
C3_OneCriticalSection ==
    /\ \A w \in Workers :
          /\ r_workers[w].acquired <= 1
          /\ r_workers[w].pc \in {"render", "panicked"} =>
                r_workers[w].acquired = 0 /\ r_workers[w].written = {}
          /\ r_workers[w].pc \in {"copy", "done"} =>
                /\ r_workers[w].acquired = 1
                /\ Len(r_workers[w].rendered) = block_height * r_cam.image_width
          /\ r_workers[w].pc = "copy" => r_lock = w
          /\ r_workers[w].pc = "done" => r_workers[w].written = {k - 1 : k \in Region(w)}
    /\ Cardinality({w \in Workers : r_workers[w].pc = "copy"}) <= 1
    /\ r_lock = NoHolder =>
          \A w \in Workers :
              IF r_workers[w].pc = "done" THEN RegionFinal(w) ELSE RegionInitial(w)

\* the lock is free between the critical sections of two workers: one band is
\* final, the other still initial and its worker waiting for the lock
C3_Witness ==
    /\ r_lock = NoHolder
    /\ Len(r_workers) = 2
    /\ r_workers[2].pc = "done" /\ Region(2) # {} /\ RegionFinal(2) /\ ~RegionInitial(2)
    /\ r_workers[1].pc = "render" /\ r_workers[1].y = block_height /\ RegionInitial(1)

\* C4: the calling thread reads the shared buffer for encoding only after every
\* spawned worker has terminated; none of its reads precedes a worker's write.
C4_ReadsAfterJoins ==
    (r_mode = "parallel" /\ (r_read \/ r_pc \in {"header", "encode", "returned"})) =>
        /\ Len(r_workers) = r_y_blocks
        /\ \A w \in Workers : r_workers[w].pc \in {"done", "panicked"}

\* the calling thread is reading the buffer that two finished workers filled
C4_Witness ==
    /\ r_mode = "parallel" /\ r_pc = "encode" /\ r_read
    /\ Len(r_workers) = 2
    /\ \A w \in Workers : r_workers[w].pc = "done" /\ r_workers[w].written # {}

\* C5: if any worker panics, parallel_render never returns an output string: the
\* calling thread does not get past its joins and builds no text; one thread
\* is spawned per band and none again.
C5_PanicAbortsRender ==
    /\ (\E w \in Workers : r_workers[w].pc = "panicked") =>
          /\ r_pc \in {"spawn", "join", "panicked"}
          /\ r_str = <<>>
    /\ Len(r_workers) <= r_y_blocks
    /\ \A w \in Workers : r_workers[w].block = w - 1

\* the join of a panicked worker has panicked the calling thread, while the
\* band of another worker is already in the shared buffer
C5_Witness ==
    /\ r_pc = "panicked"
    /\ \E w \in Workers : r_workers[w].pc = "panicked"
    /\ \E w \in Workers : r_workers[w].pc = "done" /\ r_workers[w].written # {}
    /\ r_str = <<>>

\* the pieces of a text between the occurrences of a separator
RECURSIVE SplitFrom(_, _, _, _, _)
SplitFrom(text, sep, k, piece, pieces) ==
    IF k > Len(text) THEN Append(pieces, piece)
    ELSE IF text[k] = sep THEN SplitFrom(text, sep, k + 1, <<>>, Append(pieces, piece))
    ELSE SplitFrom(text, sep, k + 1, Append(piece, text[k]), pieces)

Split(text, sep) == SplitFrom(text, sep, 1, <<>>, <<>>)

DigitValue(ch) == IF \E v \in 0..9 : Digits[v + 1] = ch
                  THEN CHOOSE v \in 0..9 : Digits[v + 1] = ch
                  ELSE -1

\* the number a decimal numeral stands for, -1 when the piece is not a numeral
RECURSIVE ParseInt(_)
ParseInt(piece) ==
    IF piece = <<>> \/ DigitValue(piece[Len(piece)]) < 0 THEN -1
    ELSE IF Len(piece) = 1 THEN DigitValue(piece[1])
    ELSE LET high == ParseInt(SubSeq(piece, 1, Len(piece) - 1))
         IN  IF high < 0 THEN -1 ELSE 10 * high + DigitValue(piece[Len(piece)])

\* the triples of a line of pixels, each followed by a blank
Triples(line) ==
    LET pieces == Split(line, " ")
    IN  [n \in 1..((Len(pieces) - 1) \div 3) |->
            <<ParseInt(pieces[3 * n - 2]), ParseInt(pieces[3 * n - 1]), ParseInt(pieces[3 * n])>>]

\* every piece of a line of pixels is a numeral, three to a pixel, and the line
\* ends with the blank of its last pixel
WellFormedRow(line) ==
    LET pieces == Split(line, " ")
    IN  /\ (Len(pieces) - 1) % 3 = 0
        /\ pieces[Len(pieces)] = <<>>
        /\ \A n \in 1..(Len(pieces) - 1) : ParseInt(pieces[n]) >= 0

\* a reader of the textual format: the header's width and height, and the lines
\* of pixels that follow it
Decode(text) ==
    LET lines == Split(text, "\n")
        dims == IF Len(lines) >= 2 THEN Split(lines[2], " ") ELSE <<>>
    IN  [ok |-> /\ Len(lines) >= 4
                /\ lines[1] = <<"P", "3">>
                /\ Len(dims) = 2
                /\ lines[3] = <<"2", "5", "5">>
                /\ lines[Len(lines)] = <<>>
                /\ \A n \in 4..(Len(lines) - 1) : WellFormedRow(lines[n]),
         width |-> IF Len(dims) = 2 THEN ParseInt(dims[1]) ELSE -1,
         height |-> IF Len(dims) = 2 THEN ParseInt(dims[2]) ELSE -1,
         rows |-> [n \in 1..(Len(lines) - 4) |-> Triples(lines[n + 3])]]

\* the colour of pixel (i, j) that the renderer encodes: the slots of the shared
\* buffer in parallel_render, the colour computed for the pixel in render
PixelColor(i, j) ==
    IF r_mode = "parallel"
    THEN Vec3(r_buf[(j * r_cam.image_width + i) * 3 + 1],
              r_buf[(j * r_cam.image_width + i) * 3 + 2],
              r_buf[(j * r_cam.image_width + i) * 3 + 3])
    ELSE r_rendered[j * r_cam.image_width + i + 1][3]

\* the encoding of a colour: the three integers write_color prints
Encoding(c) == <<Channel(c[1]), Channel(c[2]), Channel(c[3])>>

\* the text returned has image_height rows of image_width triples, the triple
\* at row j column i being the encoding of pixel (i, j)
DecodedPixels(img) ==
    /\ img.ok
    /\ Len(img.rows) = r_cam.image_height
    /\ \A j \in 1..Len(img.rows) :
          /\ Len(img.rows[j]) = r_cam.image_width
          /\ \A i \in 1..Len(img.rows[j]) :
                img.rows[j][i] = Encoding(PixelColor(i - 1, j - 1))

\* C10: for every image_width and image_height, the text returned by
\* parallel_render, and by render, decodes to a header carrying that width and
\* that height, followed by image_height rows of image_width triples, the
\* triple at row j column i being the encoding of pixel (i, j).
C10_TextRoundTrip ==
    r_pc = "returned" =>
        /\ Decode(r_str).width = r_cam.image_width
        /\ Decode(r_str).height = r_cam.image_height
        /\ DecodedPixels(Decode(r_str))

\* C11: every worker spawned by parallel_render renders with a camera whose
\* configuration (dimensions, center, pixel00_loc, pixel deltas,
\* samples_per_pixel, max_depth) equals that of the camera parallel_render was
\* invoked on, and with a generator of its own.
C11_WorkerCameraIsCallers ==
    \A w \in Workers : r_workers[w].camera = r_cam /\ r_workers[w].rng \in RngStates

\* the rows that y_blocks bands of floor(image_height / y_blocks) rows cover
RenderedRows == r_y_blocks * (r_cam.image_height \div r_y_blocks)

\* the pixels for which some worker has called render_pixel
RenderedPixels ==
    UNION {{<<r_workers[w].rendered[n][1], r_workers[w].rendered[n][2]>> :
               n \in 1..Len(r_workers[w].rendered)} : w \in Workers}

\* every index the threads are about to use, or have used, is inside its buffer
IndicesInBounds ==
    /\ \A w \in Workers :
          /\ (r_workers[w].pc = "render" /\ r_workers[w].y < r_cam.image_height \div r_y_blocks) =>
                r_workers[w].y * block_size + r_workers[w].x * 3 + 2 < Len(r_workers[w].local_buf)
          /\ r_workers[w].written \subseteq 0..(Len(r_buf) - 1)
          /\ r_workers[w].pc = "copy" =>
                (r_workers[w].block + 1) * Len(r_workers[w].local_buf) <= Len(r_buf)
    /\ (r_pc = "encode" /\ r_j < r_cam.image_height /\ r_i < r_cam.image_width) =>
          r_j * block_size + r_i * 3 + 2 < Len(r_buf)

\* C12: when image_height is not a multiple of y_blocks (y_blocks >= 1),
\* parallel_render fails only if a worker panicked; exactly the first
\* y_blocks * floor(image_height / y_blocks) rows are rendered, the other rows
\* are written by no worker and keep 0.0, and no index is out of bounds.
C12_RemainderRowsStayInitial ==
    (r_mode = "parallel" /\ r_y_blocks >= 1 /\ r_cam.image_height % r_y_blocks # 0) =>
        /\ r_pc = "panicked" => \E w \in Workers : r_workers[w].pc = "panicked"
        /\ IndicesInBounds
        /\ RenderedPixels \subseteq (0..(r_cam.image_width - 1)) \X (0..(RenderedRows - 1))
        /\ \A k \in (RenderedRows * r_cam.image_width * 3 + 1)..Len(r_buf) :
              /\ r_buf[k] = I(0)
              /\ \A w \in Workers : (k - 1) \notin r_workers[w].written
        /\ AllJoined =>
              /\ RenderedPixels = (0..(r_cam.image_width - 1)) \X (0..(RenderedRows - 1))
              /\ \A k \in 1..(RenderedRows * r_cam.image_width * 3) : r_buf[k] # I(0)

\* a render of three rows in two bands has returned: two rows are rendered, the
\* third is the initial 0.0 and is encoded as such
C12_Witness ==
    /\ r_mode = "parallel" /\ r_pc = "returned"
    /\ r_cam.image_height = 3 /\ r_y_blocks = 2
    /\ RenderedPixels = (0..(r_cam.image_width - 1)) \X (0..1)
    /\ \A k \in 1..Len(r_buf) : r_buf[k] = I(0) <=> k > 2 * r_cam.image_width * 3

(***************************************************************************)
(* The work of ray_color (SpecColor).                                      *)
(***************************************************************************)
\* C13: started with depth d >= 0, ray_color makes at most d+1 scene queries and
\* at most d+1 scatter calls along its path and then returns; an activation
\* with depth < 0 makes no query and returns black, so a path that scatters
\* d+1 times in a row yields black.
C13_DepthBoundsWork ==
    c_pc # "idle" =>
        /\ c_queries <= c_start + 1
        /\ c_scatters <= c_queries
        /\ c_depth >= -1
        /\ c_pc = "call" => c_depth + Len(c_stack) = c_start /\ c_queries = Len(c_stack)
        /\ (LeafReturned /\ c_depth < 0) =>
              c_queries = c_start + 1 /\ c_scatters = c_start + 1 /\ c_ret = EMPTY
        /\ (c_pc \in {"return", "done"} /\ c_depth < 0) => c_ret = EMPTY
        /\ c_pc \in {"call", "return", "done"}

\* an evaluation started with depth >= 1 has scattered depth + 1 times in a row
\* and has returned black
C13_Witness ==
    /\ c_pc = "done"
    /\ c_start >= 1
    /\ c_depth = -1
    /\ c_queries = c_start + 1 /\ c_scatters = c_start + 1
    /\ c_ret = EMPTY

(***************************************************************************)
(* Properties of the queries on tying primitives (SpecTie).                *)
(***************************************************************************)
\* the least element of a non-empty set of indices
First(S) == CHOOSE i \in S : \A k \in S : i <= k

\* the triangles of a mesh that, queried alone, hit at t
TrianglesAt(polygon, t) ==
    {n \in 1..Len(polygon.triangles) :
        /\ TriangleHit(polygon.triangles[n], h_ray, h_interval).hit
        /\ TriangleHit(polygon.triangles[n], h_ray, h_interval).rec.t = t}

\* C14: when two or more primitives of a HittableList, or two or more triangles
\* of a Polygon, hit the ray at exactly the same valid t, the record returned
\* is that of the one that comes first in collection order.
C14_FirstFoundWins ==
    /\ (AllQueried /\ h_result.hit) =>
          h_result.rec =
              h_ind[First({i \in IndividualHits : h_ind[i].res.rec.t = h_result.rec.t})].res.rec
    /\ \A i \in 1..Len(h_world) :
          (h_ind[i].done /\ h_world[i].kind = "polygon" /\ h_ind[i].res.hit) =>
              h_ind[i].res.rec =
                  TriangleHit(h_world[i].triangles[
                                  First(TrianglesAt(h_world[i], h_ind[i].res.rec.t))],
                              h_ray, h_interval).rec

NonNegative(color) == \A k \in 1..3 : RLe(I(0), color[k])

\* the three numbers of the text write_color built
Emitted == Triples(e_text)[1]

\* C16: for a linear colour with non-negative components, components above 1
\* included, every channel value write_color and process_rgb emit is an integer
\* in 0..255.
C16_ChannelsAreBytes ==
    NonNegative(e_color) =>
        /\ e_pc = "written" =>
              /\ WellFormedRow(e_text)
              /\ \A k \in 1..3 : Emitted[k] \in 0..255
        /\ e_pc = "processed" => \A k \in 1..3 : e_rgb[k] \in 0..255

(***************************************************************************)
(* Progress of parallel_render (SpecRenderFair).                           *)
(***************************************************************************)
ParallelCall == r_mode = "parallel" /\ r_y_blocks >= 1

\* C17: under fair scheduling, and with no render_pixel call panicking,
\* parallel_render with y_blocks >= 1 eventually returns: every worker has then
\* acquired and released the lock and was joined, and the final lock of the
\* calling thread is always granted.
C17_ParallelRenderReturns ==
    /\ <>(r_pc = "returned")
    /\ [](ParallelCall /\ r_pc = "returned" =>
             /\ Len(r_workers) = r_y_blocks
             /\ \A w \in 1..r_y_blocks : r_workers[w].pc = "done" /\ r_workers[w].acquired = 1
             /\ r_lock = NoHolder)
    /\ (ParallelCall /\ r_pc = "lock") ~> (r_pc = "header" /\ r_lock = CallingThread)

\* a render by MaxY workers, which took the lock in the reverse of the order
\* they were spawned in, has returned
C17_Witness ==
    /\ ParallelCall
    /\ r_y_blocks = MaxY
    /\ r_pc = "returned"
    /\ \A w \in 1..MaxY : r_workers[w].pc = "done" /\ r_workers[w].turn = MaxY - w
    /\ r_cam.image_height >= MaxY

(***************************************************************************)
(* The layout of the shared buffer (SpecRender).                           *)
(***************************************************************************)
\* the copies that wrote slot k (counted from 0) of the shared buffer: worker w,
\* by its n-th copy_from_slice row
Writes(k) ==
    {<<w, n>> \in Workers \X (1..MaxH) :
        /\ n <= Len(r_workers[w].copies)
        /\ k \in r_workers[w].copies[n]..(r_workers[w].copies[n] + block_size - 1)}

\* the calls of render_pixel for pixel (i, j) made by worker w
Calls(w, i, j) ==
    {n \in 1..Len(r_workers[w].rendered) :
        r_workers[w].rendered[n][1] = i /\ r_workers[w].rendered[n][2] = j}

Divides == r_mode = "parallel" /\ r_y_blocks >= 1 /\ r_cam.image_height % r_y_blocks = 0

\* C18: when y_blocks divides image_height, every slot of the shared buffer is
\* written exactly once, and after the joins the three slots from
\* (j * image_width + i) * 3 hold the colour that the worker of band
\* floor(j / block_height) computed by render_pixel(i, j), which it called once
\* and no other worker called; the text has the pixels in the row-major order of
\* render, whose n-th call of render_pixel is for pixel (n mod width, n div width).
C18_RowMajorLayout ==
    /\ (Divides /\ AllJoined) =>
          /\ \A k \in 0..(Len(r_buf) - 1) : Cardinality(Writes(k)) = 1
          /\ \A j \in 0..(r_cam.image_height - 1) : \A i \in 0..(r_cam.image_width - 1) :
                /\ \A w \in Workers :
                      Cardinality(Calls(w, i, j)) = (IF w = (j \div block_height) + 1 THEN 1 ELSE 0)
                /\ \A n \in Calls((j \div block_height) + 1, i, j) :
                      /\ r_workers[(j \div block_height) + 1].rendered[n][3] = PixelColor(i, j)
                      /\ \E rng \in RngStates :
                            PixelColor(i, j) =
                                render_pixel(r_workers[(j \div block_height) + 1].camera, rng, i, j)
    /\ (Divides /\ r_pc = "returned") => DecodedPixels(Decode(r_str))
    /\ (r_mode = "sequential" /\ r_pc = "returned") =>
          /\ DecodedPixels(Decode(r_str))
          /\ Len(r_rendered) = r_cam.image_width * r_cam.image_height
          /\ \A n \in 1..Len(r_rendered) :
                /\ r_rendered[n][1] = (n - 1) % r_cam.image_width
                /\ r_rendered[n][2] = (n - 1) \div r_cam.image_width

\* MaxY workers, each with a band of more than one pixel, have been joined and
\* the text is returned
C18_Witness ==
    /\ Divides /\ r_pc = "returned"
    /\ r_y_blocks = MaxY
    /\ r_cam.image_width = MaxW
    /\ block_height >= 1
    /\ \A k \in 0..(Len(r_buf) - 1) : Cardinality(Writes(k)) = 1
    /\ \A w \in Workers : Len(r_workers[w].rendered) = MaxW * block_height

====
